---- MODULE Spec2Model ----
(***************************************************************************)
(* Model of the release scripts of R-swat under cicd/:                     *)
(*   get-version.py   prints the package version of a DESCRIPTION file     *)
(*   get-basename.py  prints the package basename                          *)
(*   tar2conda.py     converts a tar.gz distribution to conda packages     *)
(*                                                                         *)
(* Python strings are sequences of one-character strings, so that the      *)
(* regular expressions of the scripts are computed character by character. *)
(***************************************************************************)
EXTENDS Integers, Sequences, FiniteSets, TLC

(***************************************************************************)
(* Bounds of the model                                                     *)
(***************************************************************************)
\* number of lines of a DESCRIPTION file
MaxLines == 3
\* number of entries of one `conda search` result
MaxItems == 3

(***************************************************************************)
(* Strings                                                                 *)
(***************************************************************************)
\* Python's None; distinct from every string, and '{}'.format(None) is 'None'
None == <<"None">>

\* truth value of a Python object in `if version:`
Truthy(v) == v # None /\ v # <<>>

\* '{}'.format(v)
Str(v) == IF v = None THEN <<"N", "o", "n", "e">> ELSE v

\* the class \s of the re module
IsSpace(c) == c \in {" ", "\t", "\n", "\r"}

\* the class \d of the re module
IsDigit(c) == c \in {"0", "1", "2", "3", "4", "5", "6", "7", "8", "9"}

\* s.startswith(p)
StartsWith(s, p) == Len(s) >= Len(p) /\ SubSeq(s, 1, Len(p)) = p

\* \s* from position k: the first position at or after k that is not a space
RECURSIVE SkipSpace(_, _)
SkipSpace(s, k) ==
    IF k <= Len(s) /\ IsSpace(s[k]) THEN SkipSpace(s, k + 1) ELSE k

\* \S* from position k: the first position at or after k that is a space
RECURSIVE SkipNonSpace(_, _)
SkipNonSpace(s, k) ==
    IF k <= Len(s) /\ ~IsSpace(s[k]) THEN SkipNonSpace(s, k + 1) ELSE k

\* \d* from position k: the first position at or after k that is not a digit
RECURSIVE SkipDigits(_, _)
SkipDigits(s, k) ==
    IF k <= Len(s) /\ IsDigit(s[k]) THEN SkipDigits(s, k + 1) ELSE k

\* s.rstrip()
RECURSIVE RStrip(_)
RStrip(s) ==
    IF s # <<>> /\ IsSpace(s[Len(s)]) THEN RStrip(SubSeq(s, 1, Len(s) - 1)) ELSE s

\* a line as the iteration over an open file yields it
WithNewline(line) == line \o <<"\n">>

(***************************************************************************)
(* The DESCRIPTION file                                                    *)
(***************************************************************************)
\* group 1 of  ^<key>\s*:\s*(\S+)  on the line, None when it does not match
MatchKey(key, line) ==
    IF ~StartsWith(line, key) THEN None
    ELSE LET c == SkipSpace(line, Len(key) + 1)
         IN IF ~(c <= Len(line) /\ line[c] = ":") THEN None
            ELSE LET b == SkipSpace(line, c + 1)
                     e == SkipNonSpace(line, b)
                 IN IF e > b THEN SubSeq(line, b, e - 1) ELSE None

KeyVersion == <<"V", "e", "r", "s", "i", "o", "n">>
KeyTKVersion == <<"T", "K", "V", "e", "r", "s", "i", "o", "n">>

\* lines a DESCRIPTION file is made of in the model
LineV1 == <<"V", "e", "r", "s", "i", "o", "n", ":", " ", "1", ".", "0">>
LineV2 == <<"V", "e", "r", "s", "i", "o", "n", " ", ":", "2", ".", "0", " ">>
LineVEmpty == <<"V", "e", "r", "s", "i", "o", "n", ":", " ">>
LineVIndented == <<" ", "V", "e", "r", "s", "i", "o", "n", ":", " ", "9">>
LineTKNone == <<"T", "K", "V", "e", "r", "s", "i", "o", "n", ":", " ", "n", "o", "n", "e">>
LineTK == <<"T", "K", "V", "e", "r", "s", "i", "o", "n", ":", " ", "v", "b", "5">>
LineTitle == <<"T", "i", "t", "l", "e", ":", " ", "s", "w", "a", "t">>

DescLines == {LineV1, LineV2, LineVEmpty, LineVIndented, LineTKNone, LineTK, LineTitle}

\* the files of at most n lines
SeqsUpTo(S, n) == UNION {[1..k -> S] : k \in 0..n}

VARIABLES
    desc,       \* get-version.py, get-basename.py: the lines of <root>/DESCRIPTION
    args,       \* the parsed command line of the metadata tool
    mpc,        \* "idle", "ready" before main, "exited" after sys.exit
    tool,       \* the script that ran: "none", "get-version" or "get-basename"
    out,        \* the characters written to sys.stdout
    err,        \* the characters written to sys.stderr
    status      \* the exit status of the process

metaVars == <<desc, args, mpc, tool, out, err, status>>

PlatLinux == <<"l", "i", "n", "u", "x", "-", "6", "4">>
PlatWin == <<"w", "i", "n", "-", "6", "4">>

\* the choices of --platform the model runs with
Platforms == {PlatLinux, PlatWin}

ErrorMessage ==
    <<"E", "R", "R", "O", "R", ":", " ", "C", "o", "u", "l", "d", " ", "n", "o", "t", " ",
      "f", "i", "n", "d", " ", "D", "E", "S", "C", "R", "I", "P", "T", "I", "O", "N", " ",
      "f", "i", "l", "e", ".">>

\* print(s): the text and a newline
PrintLine(stream, s) == stream \o s \o <<"\n">>

\* print_err(s): sys.stderr.write(s); sys.stderr.write('\n')
print_err(stream, s) == (stream \o s) \o <<"\n">>

\* get-version.py: the loop over the lines, from line k on
RECURSIVE ScanVersion(_, _, _)
ScanVersion(lines, k, version) ==
    IF k > Len(lines) THEN version
    ELSE LET m == MatchKey(KeyVersion, WithNewline(lines[k]))
         IN ScanVersion(lines, k + 1, IF m # None THEN m ELSE version)

RestOnly == <<"R", "E", "S", "T", "-", "o", "n", "l", "y">>
NoneWord == <<"n", "o", "n", "e">>

\* get-basename.py: the loop over the lines, from line k on
RECURSIVE ScanBasename(_, _, _)
ScanBasename(lines, k, st) ==
    IF k > Len(lines) THEN st
    ELSE LET mv == MatchKey(KeyVersion, WithNewline(lines[k]))
             mt == MatchKey(KeyTKVersion, WithNewline(lines[k]))
             v == IF mv # None THEN mv ELSE st.version
             t == IF mt # None
                  THEN (IF mt = NoneWord THEN RestOnly ELSE mt)
                  ELSE st.tk_version
         IN ScanBasename(lines, k + 1, [version |-> v, tk_version |-> t])

EqEq == <<"=", "=">>
RSwatDash == <<"R", "-", "s", "w", "a", "t", "-">>

\* GetVersionMain with the error message printed with print()
GetVersionMain_ErrorToStdout ==
    /\ mpc = "ready"
    /\ LET version == ScanVersion(desc, 1, None)
       IN IF Truthy(version)
          THEN /\ out' = PrintLine(out, IF args.as_expr THEN EqEq \o version ELSE version)
               /\ err' = err
               /\ status' = 0
          ELSE /\ out' = PrintLine(out, ErrorMessage)
               /\ err' = err
               /\ status' = 1
    /\ mpc' = "exited"
    /\ tool' = "get-version"
    /\ UNCHANGED <<desc, args>>

\* get-version.py: main and the sys.exit(main(args) or 0) around it
GetVersionMain ==
    /\ mpc = "ready"
    /\ LET version == ScanVersion(desc, 1, None)
       IN IF Truthy(version)
          THEN /\ out' = PrintLine(out, IF args.as_expr THEN EqEq \o version ELSE version)
               /\ err' = err
               /\ status' = 0
          ELSE /\ err' = print_err(err, ErrorMessage)
               /\ out' = out
               /\ status' = 1
    /\ mpc' = "exited"
    /\ tool' = "get-version"
    /\ UNCHANGED <<desc, args>>

\* get-basename.py: main and the sys.exit(main(args) or 0) around it
GetBasenameMain ==
    /\ mpc = "ready"
    /\ LET st == ScanBasename(desc, 1, [version |-> None, tk_version |-> None])
       IN IF Truthy(st.version)
          THEN /\ out' = PrintLine(out,
                            IF args.full
                            THEN RSwatDash \o Str(st.version) \o <<"+">>
                                   \o Str(st.tk_version) \o <<"-">> \o Str(args.platform)
                            ELSE RSwatDash \o Str(st.version))
               /\ err' = err
               /\ status' = 0
          ELSE /\ err' = print_err(err, ErrorMessage)
               /\ out' = out
               /\ status' = 1
    /\ mpc' = "exited"
    /\ tool' = "get-basename"
    /\ UNCHANGED <<desc, args>>

(***************************************************************************)
(* tar2conda.py: get_supported_versions                                    *)
(***************************************************************************)
\* the packages whose builds decide the supported versions of R
Packages == <<"r::r-dplyr", "r::r-httr", "r::r-testthat", "r::r-xlsx">>

RBase == <<"r", "-", "b", "a", "s", "e">>
MroBase == <<"m", "r", "o", "-", "b", "a", "s", "e">>
R == <<"r">>
Mro == <<"m", "r", "o">>
Bases == {R, Mro}
FallbackVersion == <<"3", ".", "4", ".", "3">>

\* s.split('-')[0]: the characters before the first '-'
RECURSIVE SplitDashFirst(_, _)
SplitDashFirst(s, k) ==
    IF k > Len(s) \/ s[k] = "-" THEN SubSeq(s, 1, k - 1) ELSE SplitDashFirst(s, k + 1)

\* the end of a match of \d+\.\d+(?:\.\d+)? that starts at position p; 0 if none
VersionMatchEnd(s, p) ==
    LET d1 == SkipDigits(s, p)
    IN IF ~(d1 > p /\ d1 <= Len(s) /\ s[d1] = ".") THEN 0
       ELSE LET d2 == SkipDigits(s, d1 + 1)
            IN IF d2 = d1 + 1 THEN 0
               ELSE IF d2 <= Len(s) /\ s[d2] = "." /\ SkipDigits(s, d2 + 1) > d2 + 1
                    THEN SkipDigits(s, d2 + 1)
                    ELSE d2

\* re.findall(r'(\d+\.\d+(?:\.\d+)?)', s)[0] searched from position p on;
\* None stands for the IndexError of [0] on an empty list
RECURSIVE FindVersion(_, _)
FindVersion(s, p) ==
    IF p > Len(s) THEN None
    ELSE IF VersionMatchEnd(s, p) # 0 THEN SubSeq(s, p, VersionMatchEnd(s, p) - 1)
    ELSE FindVersion(s, p + 1)

\* [x for x in item['depends'] if x.startswith('r-base') or x.startswith('mro-base')]
BaseDepends(depends) ==
    SelectSeq(depends, LAMBDA x : StartsWith(x, RBase) \/ StartsWith(x, MroBase))

\* OnNoVersion with the fallback taken for every base
OnNoVersion_AnyBase(base) == FallbackVersion

\* the except IndexError branch: the version used when the pattern finds none
\* ("raise" re-raises the IndexError)
OnNoVersion(base) == IF base = Mro THEN FallbackVersion ELSE None

\* the body of the loop over the entries of one search result, for package
\* number i and the sets v: what happens, and the sets afterwards
ProcessItem(v, i, item) ==
    LET rvers == BaseDepends(item.depends)
    IN IF rvers = <<>>
       THEN [kind |-> "continue", vers |-> v, base |-> None, rver |-> None,
             dep |-> None, exc |-> "none"]
       ELSE LET dep == rvers[1]
                base == SplitDashFirst(dep, 1)
                found == FindVersion(dep, 1)
                rver == IF found # None THEN found ELSE OnNoVersion(base)
            IN IF rver = None
               THEN [kind |-> "raise", vers |-> v, base |-> base, rver |-> None,
                     dep |-> dep, exc |-> "IndexError"]
               ELSE IF i = 0
               THEN [kind |-> "ok", vers |-> [v EXCEPT ![base] = @ \cup {rver}],
                     base |-> base, rver |-> rver, dep |-> dep, exc |-> "none"]
               ELSE IF rver \notin v[base]
               \* set.remove of an element that is not in the set
               THEN [kind |-> "raise", vers |-> v, base |-> base, rver |-> rver,
                     dep |-> dep, exc |-> "KeyError"]
               ELSE [kind |-> "ok", vers |-> v, base |-> base, rver |-> rver,
                     dep |-> dep, exc |-> "none"]

\* the code point order of the characters of a version
CodePoint(c) ==
    CASE c = "." -> 46
      [] c = "0" -> 48 [] c = "1" -> 49 [] c = "2" -> 50 [] c = "3" -> 51
      [] c = "4" -> 52 [] c = "5" -> 53 [] c = "6" -> 54 [] c = "7" -> 55
      [] c = "8" -> 56 [] c = "9" -> 57
      [] OTHER -> 127

\* a < b for Python strings
RECURSIVE StrLess(_, _)
StrLess(a, b) ==
    IF b = <<>> THEN FALSE
    ELSE IF a = <<>> THEN TRUE
    ELSE IF a[1] # b[1] THEN CodePoint(a[1]) < CodePoint(b[1])
    ELSE StrLess(Tail(a), Tail(b))

\* list(sorted(S))
RECURSIVE Sorted(_)
Sorted(S) ==
    IF S = {} THEN <<>>
    ELSE LET m == CHOOSE x \in S : \A y \in S \ {x} : StrLess(x, y)
         IN <<m>> \o Sorted(S \ {m})

\* dependency strings and search result entries of the model
Dep34 == <<"r", "-", "b", "a", "s", "e", " ", "3", ".", "4">>
Dep35 == <<"r", "-", "b", "a", "s", "e", " ", ">", "=", "3", ".", "5">>
Dep36 == <<"r", "-", "b", "a", "s", "e", " ", "3", ".", "6", ".", "1", "*">>
DepRNone == <<"r", "-", "b", "a", "s", "e">>
DepM351 == <<"m", "r", "o", "-", "b", "a", "s", "e", " ", "3", ".", "5", ".", "1">>
DepMNone == <<"m", "r", "o", "-", "b", "a", "s", "e">>
DepOther == <<"r", "-", "r", "l", "a", "n", "g">>

Item34 == [depends |-> <<Dep34>>]
Item35 == [depends |-> <<DepOther, Dep35>>]
Item36 == [depends |-> <<Dep36>>]
ItemRNone == [depends |-> <<DepRNone>>]
ItemM351 == [depends |-> <<DepM351>>]
ItemMNone == [depends |-> <<DepMNone, Dep34>>]
ItemOther == [depends |-> <<DepOther>>]

Items == {Item34, Item35, Item36, ItemRNone, ItemM351, ItemMNone, ItemOther}

VARIABLES
    gpc,        \* get_supported_versions: "idle", "search", "items", "returned", "raised"
    gi,         \* the index i of the package of the outer loop
    gj,         \* the number of entries of the current search result processed
    vers,       \* the dict vers: base -> set of versions
    declared,   \* per package searched, base -> versions its entries declared
    last,       \* what the loop body did with the last entry
    gexc,       \* the exception that ended the function, "none" if none
    noVersion,  \* some entry so far named a base without a version
    result      \* whether the function returned, and the dict it returned

gsvVars == <<gpc, gi, gj, vers, declared, last, gexc, noVersion, result>>

\* no dict is returned yet
NoResult == [returned |-> FALSE, vers |-> [b \in Bases |-> <<>>]]

NoEntry ==
    [kind |-> "none", vers |-> [b \in Bases |-> {}], base |-> None, rver |-> None,
     dep |-> None, exc |-> "none"]

\* subprocess.check_output(['conda', 'search', ...]) for package gi returns
SearchReturns ==
    /\ gpc = "search"
    /\ gpc' = "items"
    /\ gj' = 0
    /\ declared' = Append(declared, [b \in Bases |-> {}])
    /\ UNCHANGED <<gi, vers, last, gexc, noVersion, result>>

\* subprocess.check_output raises: conda search exited with a non-zero status
SearchFails ==
    /\ gpc = "search"
    /\ gpc' = "raised"
    /\ gexc' = "CalledProcessError"
    /\ UNCHANGED <<gi, gj, vers, declared, last, noVersion, result>>

\* one iteration of the loop over the entries of the search result
NextItem ==
    /\ gpc = "items"
    /\ gj < MaxItems
    /\ \E item \in Items :
         LET r == ProcessItem(vers, gi, item)
         IN /\ last' = r
            /\ vers' = r.vers
            /\ gj' = gj + 1
            /\ declared' = IF r.rver # None
                           THEN [declared EXCEPT ![gi + 1][r.base] = @ \cup {r.rver}]
                           ELSE declared
            /\ gpc' = IF r.kind = "raise" THEN "raised" ELSE "items"
            /\ gexc' = r.exc
            /\ noVersion' = (noVersion \/ (r.dep # None /\ FindVersion(r.dep, 1) = None))
    /\ UNCHANGED <<gi, result>>

\* the entries are exhausted: the next package, or the sorted lists are returned
EndItems ==
    /\ gpc = "items"
    /\ IF gi + 1 < Len(Packages)
       THEN /\ gi' = gi + 1
            /\ gpc' = "search"
            /\ result' = result
       ELSE /\ gi' = gi
            /\ gpc' = "returned"
            /\ result' = [returned |-> TRUE, vers |-> [b \in Bases |-> Sorted(vers[b])]]
    /\ UNCHANGED <<gj, vers, declared, last, gexc, noVersion>>

(***************************************************************************)
(* tar2conda.py: update_recipe                                             *)
(***************************************************************************)
\* the literal lit stands at position k of s
At(s, k, lit) == k >= 1 /\ k + Len(lit) - 1 <= Len(s) /\ SubSeq(s, k, k + Len(lit) - 1) = lit

\* sub in s
Contains(s, sub) == \E k \in 1..Len(s) : At(s, k, sub)

\* the first position at or after k that holds a quote
RECURSIVE SkipToQuote(_, _)
SkipToQuote(s, k) ==
    IF k <= Len(s) /\ s[k] # "'" THEN SkipToQuote(s, k + 1) ELSE k

OpenTag == <<"{", "%">>
CloseTag == <<"%", "}">>
SetWord == <<"s", "e", "t">>
Sha256 == <<"s", "h", "a", "2", "5", "6">>

\* the match of  ^(\{%\s*set\s+<key>\s*=\s*)'[^']+'(\s*%\}\s*)$  on the line:
\* the positions of the two quotes, <<0, 0>> when the line does not match
SetMatch(line, key) ==
    LET k1 == SkipSpace(line, 3)
        k2 == SkipSpace(line, k1 + 3)
        k3 == SkipSpace(line, k2 + Len(key))
        k4 == SkipSpace(line, k3 + 1)
        k5 == SkipToQuote(line, k4 + 1)
        k6 == SkipSpace(line, k5 + 1)
        k7 == SkipSpace(line, k6 + 2)
    IN IF /\ At(line, 1, OpenTag)
          /\ At(line, k1, SetWord)
          /\ k2 > k1 + 3
          /\ At(line, k2, key)
          /\ At(line, k3, <<"=">>)
          /\ At(line, k4, <<"'">>)
          /\ k5 > k4 + 1
          /\ At(line, k5, <<"'">>)
          /\ At(line, k6, CloseTag)
          /\ k7 = Len(line) + 1
       THEN <<k4, k5>>
       ELSE <<0, 0>>

\* SubKey with the replacement \1<value>\2, the quotes forgotten
SubKey_NoQuotes(line, key, value) ==
    LET m == SetMatch(line, key)
    IN IF m = <<0, 0>> THEN line
       ELSE SubSeq(line, 1, m[1] - 1) \o value \o SubSeq(line, m[2] + 1, Len(line))

\* re.sub of that pattern by  \1'<value>'\2
SubKey(line, key, value) ==
    LET m == SetMatch(line, key)
    IN IF m = <<0, 0>> THEN line
       ELSE SubSeq(line, 1, m[1]) \o value \o SubSeq(line, m[2], Len(line))

\* \s*#\s*\[.+?\]\s*  matches the line from position q to its end
CommentAt(line, q) ==
    LET s1 == SkipSpace(line, q)
        s2 == SkipSpace(line, s1 + 1)
    IN /\ At(line, s1, <<"#">>)
       /\ At(line, s2, <<"[">>)
       /\ \E r \in (s2 + 2)..Len(line) :
            /\ line[r] = "]"
            /\ \A x \in (s2 + 1)..(r - 1) : line[x] # "\n"
            /\ SkipSpace(line, r + 1) = Len(line) + 1

\* $ matches at position q: the end of the line, or its final newline
DollarAt(line, q) == q = Len(line) + 1 \/ (q = Len(line) /\ line[q] = "\n")

UrlWord == <<"u", "r", "l">>
PathWord == <<"p", "a", "t", "h">>

\* re.sub of  ^(\s+)(?:url|path):.*?(\s*#\s*\[.+?\]\s*)?$  by  \1<field>: <url>\2
SubSource(line, field, url) ==
    LET k1 == SkipSpace(line, 1)
        c == IF At(line, k1, UrlWord) THEN k1 + 3
             ELSE IF At(line, k1, PathWord) THEN k1 + 4 ELSE 0
    IN IF ~(k1 > 1 /\ c # 0 /\ At(line, c, <<":">>)) THEN line
       ELSE LET stops == {q \in (c + 1)..(Len(line) + 1) :
                            /\ \A x \in (c + 1)..(q - 1) : line[x] # "\n"
                            /\ (CommentAt(line, q) \/ DollarAt(line, q))}
            IN IF stops = {} THEN line
               ELSE LET q == CHOOSE x \in stops : \A y \in stops : x <= y
                    \* from q on the line is group 2, or what follows the match
                    IN SubSeq(line, 1, k1 - 1) \o field \o <<":", " ">> \o url
                         \o SubSeq(line, q, Len(line))

\* the substitutions of the keyword arguments other than url, in their order
RECURSIVE SubParams(_, _, _)
SubParams(line, params, k) ==
    IF k > Len(params) THEN line
    ELSE SubParams(SubKey(line, params[k][1], params[k][2]), params, k + 1)

\* the body of the loop over the lines of the recipe, for a line that is kept
UpdateLine(line, url, isdir, params) ==
    LET l1 == IF url # <<>>
              THEN SubSource(line, IF isdir THEN PathWord ELSE UrlWord, url)
              ELSE line
    IN RStrip(SubParams(l1, params, 1))

\* the list out of update_recipe after line k of the recipe
RECURSIVE UpdateLines(_, _, _, _, _)
UpdateLines(lines, k, url, isdir, params) ==
    IF k > Len(lines) THEN <<>>
    ELSE IF Contains(WithNewline(lines[k]), Sha256)
    THEN UpdateLines(lines, k + 1, url, isdir, params)
    ELSE <<UpdateLine(WithNewline(lines[k]), url, isdir, params)>>
           \o UpdateLines(lines, k + 1, url, isdir, params)

KeyV == <<"v", "e", "r", "s", "i", "o", "n">>
KeyRBase == <<"r", "_", "b", "a", "s", "e">>
KeyRVersion == <<"r", "_", "v", "e", "r", "s", "i", "o", "n">>
DashBase == <<"-", "b", "a", "s", "e">>

\* update_recipe(recipe, url=, version=, r_base=, r_version=): the lines written
update_recipe(lines, url, isdir, version, r_base, r_version) ==
    UpdateLines(lines, 1, url, isdir,
                <<<<KeyV, version>>, <<KeyRBase, r_base>>, <<KeyRVersion, r_version>>>>)

(***************************************************************************)
(* tar2conda.py: get_version, and get_supported_versions as one call       *)
(***************************************************************************)
\* get_version(pkg_dir): the first Version of DESCRIPTION, from line k on;
\* None stands for the RuntimeError at the end of the function
RECURSIVE get_version(_, _)
get_version(lines, k) ==
    IF k > Len(lines) THEN None
    ELSE LET m == MatchKey(KeyVersion, WithNewline(lines[k]))
         IN IF m # None THEN m ELSE get_version(lines, k + 1)

\* the loop over the entries of the result of package number i, from entry k on
RECURSIVE ProcessItems(_, _, _, _)
ProcessItems(v, i, items, k) ==
    IF k > Len(items) THEN [exc |-> "none", vers |-> v]
    ELSE LET r == ProcessItem(v, i, items[k])
         IN IF r.kind = "raise" THEN [exc |-> r.exc, vers |-> v]
            ELSE ProcessItems(r.vers, i, items, k + 1)

\* the loop over the packages from number i on, given the results of the searches
RECURSIVE ProcessPackages(_, _, _)
ProcessPackages(v, outputs, i) ==
    IF i >= Len(Packages) THEN [exc |-> "none", vers |-> v]
    ELSE LET r == ProcessItems(v, i, outputs[i + 1], 1)
         IN IF r.exc # "none" THEN r ELSE ProcessPackages(r.vers, outputs, i + 1)

\* get_supported_versions(platform) when the four searches print outputs
get_supported_versions(outputs) ==
    LET r == ProcessPackages([b \in Bases |-> {}], outputs, 0)
    IN IF r.exc # "none" THEN [exc |-> r.exc, vers |-> [b \in Bases |-> <<>>]]
       ELSE [exc |-> "none", vers |-> [b \in Bases |-> Sorted(r.vers[b])]]

(***************************************************************************)
(* tar2conda.py: main                                                      *)
(***************************************************************************)
VARIABLES
    pc,         \* the position in main: "idle", "start", "acquired", "entered",
                \* "discover", "loop", "build", "returned", "raised", "exited"
    url,        \* the variable url
    download,   \* the variable download
    files,      \* the tar files that exist on disk
    tracked,    \* the temporary files urlcleanup() removes
    tempDir,    \* the scratch directory: "none", "exists", "removed"
    cwd,        \* the working directory of the process: "orig" or "temp"
    atexit,     \* the calls registered with atexit.register
    recipe,     \* <recipe_dir>/meta.yaml: whether it exists, and its lines
    tree,       \* what tar.extractall wrote into the scratch directory
    matrix,     \* the dict get_supported_versions returned
    nxt,        \* the number of the (base, ver) pair of the nested loops
    log,        \* the recipe rewrites and conda build calls so far
    cexc        \* the exception that ended main, "none" if none

convVars == <<pc, url, download, files, tracked, tempDir, cwd, atexit, recipe, tree,
              matrix, nxt, log, cexc>>

vars == <<metaVars, gsvVars, convVars>>

\* the name of the temporary file of a download
UrlTmp == <<"/", "t", "/", "u">>

\* urlretrieve(url): the file is downloaded to a temporary file that urllib tracks
urlretrieve(fs, tr) == [files |-> fs \cup {UrlTmp}, tracked |-> tr \cup {UrlTmp}]

\* urlcleanup(): the temporary files of urlretrieve are removed
urlcleanup(fs, tr) == [files |-> fs \ tr, tracked |-> {}]

\* the recipes of the model
RecipeFull ==
    << <<"{", "%", " ", "s", "e", "t", " ", "v", "e", "r", "s", "i", "o", "n", " ", "=", " ",
         "'", "0", ".", "9", "'", " ", "%", "}">>,
       <<"{", "%", " ", "s", "e", "t", " ", "r", "_", "b", "a", "s", "e", " ", "=", " ",
         "'", "x", "-", "b", "a", "s", "e", "'", " ", "%", "}">>,
       <<"{", "%", " ", "s", "e", "t", " ", "r", "_", "v", "e", "r", "s", "i", "o", "n", " ",
         "=", " ", "'", "3", ".", "1", "'", " ", "%", "}">>,
       <<" ", " ", "u", "r", "l", ":", " ", "h", "t", "t", "p", ":", "/", "/", "h", "/", "a",
         " ", " ", "#", " ", "[", "w", "i", "n", "]">>,
       <<" ", " ", "s", "h", "a", "2", "5", "6", ":", " ", "a", "b", "1", "2">> >>

RecipeTight ==
    << <<"{", "%", "s", "e", "t", " ", "r", "_", "b", "a", "s", "e", "=", "'", "q", "'", "%", "}">>,
       <<"{", "%", " ", "s", "e", "t", " ", "r", "_", "v", "e", "r", "s", "i", "o", "n", " ",
         "=", " ", "'", "3", ".", "1", "'", " ", "%", "}">>,
       <<" ", " ", "p", "a", "t", "h", ":", " ", ".", ".", "/">> >>

RecipeChoices ==
    { [exists |-> TRUE, lines |-> RecipeFull], [exists |-> TRUE, lines |-> RecipeTight],
      [exists |-> FALSE, lines |-> <<>>] }

\* what the archive may hold: whether glob('R-swat*') finds an entry, whether
\* that entry holds a file DESCRIPTION, and the lines of the file
TreeChoices ==
    { [extracted |-> TRUE, found |-> TRUE, hasDesc |-> TRUE,
       desc |-> <<LineTitle, LineV1, LineV2>>],
      [extracted |-> TRUE, found |-> TRUE, hasDesc |-> TRUE, desc |-> <<LineTitle, LineTK>>],
      [extracted |-> TRUE, found |-> TRUE, hasDesc |-> FALSE, desc |-> <<>>],
      [extracted |-> TRUE, found |-> FALSE, hasDesc |-> FALSE, desc |-> <<>>] }

\* nothing is extracted yet
NoTree == [extracted |-> FALSE, found |-> FALSE, hasDesc |-> FALSE, desc |-> <<>>]

\* the search results main's call of get_supported_versions may see
SearchOutputs ==
    { <<Item34, Item35, ItemMNone>>, <<Item35, Item34>>, <<Item34>>, <<ItemRNone>>, <<>> }

ExtractedUrl == <<"/", "t", "/", "R", "-", "s", "w", "a", "t", "-", "1">>
HttpUrl == <<"h", "t", "t", "p", "s", ":", "/", "/", "h", "/", "a", ".", "t", "g", "z">>
HttpPrefix == <<"h", "t", "t", "p", ":">>
HttpsPrefix == <<"h", "t", "t", "p", "s", ":">>
LocalPath == <<"a", ".", "t", "g", "z">>
MissingPath == <<"b", ".", "t", "g", "z">>

\* the (base, ver) pairs in the order of the nested loops over vers.items()
Pairs(m) ==
    LET Of(b) == [k \in 1..Len(m[b]) |-> <<b, m[b][k]>>]
    IN Of(R) \o Of(Mro)

\* TemporaryDirectory.__exit__: atexit.register(shutil.rmtree, self.dir_name)
TemporaryDirectoryExit(reg) == Append(reg, <<"rmtree", "temp">>)

\* RaiseInWith with a cleanup that is registered on the normal end only
RaiseInWith_NoCleanup(exc) ==
    /\ pc' = "raised"
    /\ cexc' = exc
    /\ atexit' = atexit

\* an exception leaves the with block of main: __exit__ runs and does not
\* swallow it, so it leaves main and os.chdir(cwd) is not reached
RaiseInWith(exc) ==
    /\ pc' = "raised"
    /\ cexc' = exc
    /\ atexit' = TemporaryDirectoryExit(atexit)

\* main up to the with statement: download, or resolve the path
MainAcquire ==
    /\ pc = "start"
    /\ IF StartsWith(url, HttpPrefix) \/ StartsWith(url, HttpsPrefix)
       THEN \/ LET got == urlretrieve(files, tracked)
                   cleaned == urlcleanup(got.files, got.tracked)
               IN /\ download' = TRUE
                  /\ url' = UrlTmp
                  /\ files' = cleaned.files
                  /\ tracked' = cleaned.tracked
                  /\ pc' = "acquired"
                  /\ cexc' = cexc
            \/ /\ pc' = "raised"
               /\ cexc' = "URLError"
               /\ UNCHANGED <<url, download, files, tracked>>
       ELSE /\ pc' = "acquired"
            /\ UNCHANGED <<url, download, files, tracked, cexc>>
    /\ UNCHANGED <<tempDir, cwd, atexit, recipe, tree, matrix, nxt, log>>

\* TemporaryDirectory.__enter__: tempfile.mkdtemp()
MainEnterTemp ==
    /\ pc = "acquired"
    /\ tempDir' = "exists"
    /\ pc' = "entered"
    /\ UNCHANGED <<url, download, files, tracked, cwd, atexit, recipe, tree, matrix, nxt,
                   log, cexc>>

\* tarfile.open and extractall, urlcleanup, os.chdir(temp) and the glob
MainExtract ==
    /\ pc = "entered"
    /\ IF url \notin files
       THEN /\ RaiseInWith("FileNotFoundError")
            /\ UNCHANGED <<url, files, tracked, cwd, tree>>
       ELSE \/ /\ RaiseInWith("ReadError")
               /\ UNCHANGED <<url, files, tracked, cwd, tree>>
            \/ \E t \in TreeChoices :
                 LET cleaned == IF download THEN urlcleanup(files, tracked)
                                ELSE [files |-> files, tracked |-> tracked]
                 IN /\ tree' = t
                    /\ files' = cleaned.files
                    /\ tracked' = cleaned.tracked
                    /\ cwd' = "temp"
                    /\ IF t.found
                       THEN /\ url' = ExtractedUrl
                            /\ pc' = "discover"
                            /\ UNCHANGED <<atexit, cexc>>
                       ELSE /\ url' = url
                            /\ RaiseInWith("IndexError")
    /\ UNCHANGED <<download, tempDir, recipe, matrix, nxt, log>>

\* the call get_supported_versions(args.platform)
MainDiscover ==
    /\ pc = "discover"
    /\ \/ /\ RaiseInWith("CalledProcessError")
          /\ UNCHANGED <<matrix, nxt>>
       \/ \E outputs \in [1..Len(Packages) -> SearchOutputs] :
            LET r == get_supported_versions(outputs)
            IN IF r.exc # "none"
               THEN /\ RaiseInWith(r.exc)
                    /\ UNCHANGED <<matrix, nxt>>
               ELSE /\ matrix' = r.vers
                    /\ nxt' = 1
                    /\ pc' = "loop"
                    /\ UNCHANGED <<atexit, cexc>>
    /\ UNCHANGED <<url, download, files, tracked, tempDir, cwd, recipe, tree, log>>

\* the start of the loop body: update_recipe(..., version=get_version(url), ...)
MainUpdateRecipe ==
    /\ pc = "loop"
    /\ nxt <= Len(Pairs(matrix))
    /\ LET base == Pairs(matrix)[nxt][1]
           ver == Pairs(matrix)[nxt][2]
           version == get_version(tree.desc, 1)
       IN IF ~tree.hasDesc
          THEN RaiseInWith("IOError") /\ UNCHANGED <<recipe, log>>
          ELSE IF version = None
          THEN RaiseInWith("RuntimeError") /\ UNCHANGED <<recipe, log>>
          ELSE IF ~recipe.exists
          THEN RaiseInWith("IOError") /\ UNCHANGED <<recipe, log>>
          ELSE /\ recipe' = [recipe EXCEPT !.lines =
                                update_recipe(@, url, TRUE, version, base \o DashBase, ver)]
               /\ log' = Append(log, [op |-> "rewrite", base |-> base, ver |-> ver,
                                      rarg |-> None, ok |-> TRUE, recipe |-> recipe'.lines])
               /\ pc' = "build"
               /\ UNCHANGED <<atexit, cexc>>
    /\ UNCHANGED <<url, download, files, tracked, tempDir, cwd, tree, matrix, nxt>>

\* MainBuild with a call that does not check the exit status
MainBuild_IgnoresStatus ==
    /\ pc = "build"
    /\ \E ok \in BOOLEAN :
         LET base == Pairs(matrix)[nxt][1]
             ver == Pairs(matrix)[nxt][2]
         IN /\ log' = Append(log, [op |-> "build", base |-> base, ver |-> ver,
                                   rarg |-> ver, ok |-> ok, recipe |-> recipe.lines])
            /\ nxt' = nxt + 1
            /\ pc' = "loop"
            /\ UNCHANGED <<atexit, cexc>>
    /\ UNCHANGED <<url, download, files, tracked, tempDir, cwd, recipe, tree, matrix>>

\* the rest of the loop body: subprocess.check_output(['conda', 'build', ...])
MainBuild ==
    /\ pc = "build"
    /\ \E ok \in BOOLEAN :
         LET base == Pairs(matrix)[nxt][1]
             ver == Pairs(matrix)[nxt][2]
         IN /\ log' = Append(log, [op |-> "build", base |-> base, ver |-> ver,
                                   rarg |-> ver, ok |-> ok, recipe |-> recipe.lines])
            /\ IF ok
               THEN /\ nxt' = nxt + 1
                    /\ pc' = "loop"
                    /\ UNCHANGED <<atexit, cexc>>
               ELSE /\ nxt' = nxt
                    /\ RaiseInWith("CalledProcessError")
    /\ UNCHANGED <<url, download, files, tracked, tempDir, cwd, recipe, tree, matrix>>

\* the loops are exhausted: the with block ends, then os.chdir(cwd)
MainReturn ==
    /\ pc = "loop"
    /\ nxt > Len(Pairs(matrix))
    /\ atexit' = TemporaryDirectoryExit(atexit)
    /\ cwd' = "orig"
    /\ pc' = "returned"
    /\ UNCHANGED <<url, download, files, tracked, tempDir, recipe, tree, matrix, nxt, log,
                   cexc>>

\* the interpreter exits: the functions registered with atexit are called
ProcessExit ==
    /\ pc \in {"returned", "raised"}
    /\ tempDir' = IF \E k \in 1..Len(atexit) : atexit[k] = <<"rmtree", "temp">>
                  THEN "removed" ELSE tempDir
    /\ pc' = "exited"
    /\ UNCHANGED <<url, download, files, tracked, cwd, atexit, recipe, tree, matrix, nxt,
                   log, cexc>>

(***************************************************************************)
(* Specifications                                                          *)
(***************************************************************************)
\* the metadata tools on a DESCRIPTION file: the two scripts before main
MetaInit ==
    /\ desc \in SeqsUpTo(DescLines, MaxLines)
    /\ args \in [as_expr : BOOLEAN, full : BOOLEAN, platform : Platforms]
    /\ mpc = "ready"
    /\ tool = "none"
    /\ out = <<>>
    /\ err = <<>>
    /\ status = -1
    /\ gpc = "idle"
    /\ gi = 0
    /\ gj = 0
    /\ vers = [b \in Bases |-> {}]
    /\ declared = <<>>
    /\ last = NoEntry
    /\ gexc = "none"
    /\ noVersion = FALSE
    /\ result = NoResult
    /\ pc = "idle"
    /\ url = None
    /\ download = FALSE
    /\ files = {}
    /\ tracked = {}
    /\ tempDir = "none"
    /\ cwd = "orig"
    /\ atexit = <<>>
    /\ recipe = [exists |-> FALSE, lines |-> <<>>]
    /\ tree = NoTree
    /\ matrix = [b \in Bases |-> <<>>]
    /\ nxt = 0
    /\ log = <<>>
    /\ cexc = "none"

MetaNext ==
    \/ GetVersionMain /\ UNCHANGED <<gsvVars, convVars>>
    \/ GetBasenameMain /\ UNCHANGED <<gsvVars, convVars>>

SpecMeta == MetaInit /\ [][MetaNext]_vars

\* get_supported_versions, entry by entry, from vers = dict(r=set(), mro=set())
GsvInit ==
    /\ desc = <<>>
    /\ args = [as_expr |-> FALSE, full |-> FALSE, platform |-> PlatLinux]
    /\ mpc = "idle"
    /\ tool = "none"
    /\ out = <<>>
    /\ err = <<>>
    /\ status = -1
    /\ gpc = "search"
    /\ gi = 0
    /\ gj = 0
    /\ vers = [b \in Bases |-> {}]
    /\ declared = <<>>
    /\ last = NoEntry
    /\ gexc = "none"
    /\ noVersion = FALSE
    /\ result = NoResult
    /\ pc = "idle"
    /\ url = None
    /\ download = FALSE
    /\ files = {}
    /\ tracked = {}
    /\ tempDir = "none"
    /\ cwd = "orig"
    /\ atexit = <<>>
    /\ recipe = [exists |-> FALSE, lines |-> <<>>]
    /\ tree = NoTree
    /\ matrix = [b \in Bases |-> <<>>]
    /\ nxt = 0
    /\ log = <<>>
    /\ cexc = "none"

GsvNext ==
    \/ SearchReturns /\ UNCHANGED <<metaVars, convVars>>
    \/ SearchFails /\ UNCHANGED <<metaVars, convVars>>
    \/ NextItem /\ UNCHANGED <<metaVars, convVars>>
    \/ EndItems /\ UNCHANGED <<metaVars, convVars>>

SpecGsv == GsvInit /\ [][GsvNext]_vars

\* main of tar2conda.py from the call main(args.url, args), and the exit of the process
ConvInit ==
    /\ desc = <<>>
    /\ args = [as_expr |-> FALSE, full |-> FALSE, platform |-> PlatLinux]
    /\ mpc = "idle"
    /\ tool = "none"
    /\ out = <<>>
    /\ err = <<>>
    /\ status = -1
    /\ gpc = "idle"
    /\ gi = 0
    /\ gj = 0
    /\ vers = [b \in Bases |-> {}]
    /\ declared = <<>>
    /\ last = NoEntry
    /\ gexc = "none"
    /\ noVersion = FALSE
    /\ result = NoResult
    /\ pc = "start"
    /\ url \in {HttpUrl, LocalPath, MissingPath}
    /\ download = FALSE
    /\ files = {LocalPath}
    /\ tracked = {}
    /\ tempDir = "none"
    /\ cwd = "orig"
    /\ atexit = <<>>
    /\ recipe \in RecipeChoices
    /\ tree = NoTree
    /\ matrix = [b \in Bases |-> <<>>]
    /\ nxt = 0
    /\ log = <<>>
    /\ cexc = "none"

ConvNext ==
    \/ MainAcquire /\ UNCHANGED <<metaVars, gsvVars>>
    \/ MainEnterTemp /\ UNCHANGED <<metaVars, gsvVars>>
    \/ MainExtract /\ UNCHANGED <<metaVars, gsvVars>>
    \/ MainDiscover /\ UNCHANGED <<metaVars, gsvVars>>
    \/ MainUpdateRecipe /\ UNCHANGED <<metaVars, gsvVars>>
    \/ MainBuild /\ UNCHANGED <<metaVars, gsvVars>>
    \/ MainReturn /\ UNCHANGED <<metaVars, gsvVars>>
    \/ ProcessExit /\ UNCHANGED <<metaVars, gsvVars>>

SpecConv == ConvInit /\ [][ConvNext]_vars

(***************************************************************************)
(* Properties of get_supported_versions                                    *)
(***************************************************************************)
\* the elements of a list
Range(q) == {q[k] : k \in 1..Len(q)}

\* s holds digits, a dot and digits somewhere
HasVersionPattern(s) ==
    \E a \in 1..Len(s) : \E b \in (a + 1)..Len(s) : \E c \in (b + 1)..Len(s) :
        /\ \A x \in a..(b - 1) : IsDigit(s[x])
        /\ s[b] = "."
        /\ \A x \in (b + 1)..c : IsDigit(s[x])

\* C1: when get_supported_versions returns and every entry had an extractable
\* version, the list of a flavor holds a version only if the results of all
\* four packages declared it for that flavor; the lists are sorted sets.
C1_OnlyVersionsOfAllPackages ==
    (gpc = "returned" /\ ~noVersion) =>
        \A b \in Bases : \A v \in Range(result.vers[b]) :
            \A k \in 1..Len(Packages) : v \in declared[k][b]

\* C2: an entry whose base dependency holds no digit.digit pattern is given
\* the version 3.4.3 when the dependency is mro-base, and ends the function
\* with the IndexError, no result returned, when it is r-base.
C2_PatternMismatch ==
    (last.dep # None /\ ~HasVersionPattern(last.dep)) =>
        /\ StartsWith(last.dep, MroBase) =>
              (last.rver = FallbackVersion /\ last.exc # "IndexError")
        /\ StartsWith(last.dep, RBase) =>
              (gpc = "raised" /\ gexc = "IndexError" /\ ~result.returned
                 /\ last.rver = None)

\* C2 witness: an mro-base entry without a version was given 3.4.3
C2_Witness ==
    /\ last.dep = DepMNone
    /\ last.rver = FallbackVersion
    /\ gpc = "items"

\* C10: when every entry has an extractable version and every search
\* succeeds, get_supported_versions does not raise: a version that a later
\* package reports and the first did not is left out and changes no set.
C10_NoFailureOnExtraVersion ==
    (gpc = "raised" /\ ~noVersion) => gexc = "CalledProcessError"

(***************************************************************************)
(* Properties of get-version.py and get-basename.py                        *)
(***************************************************************************)
\* the numbers of the lines of the file that match ^<key>\s*:\s*(\S+)
MatchingLines(lines, key) ==
    {k \in 1..Len(lines) : MatchKey(key, WithNewline(lines[k])) # None}

\* the value of the first line of the file that matches, None if none does
FirstValue(lines, key) ==
    IF MatchingLines(lines, key) = {} THEN None
    ELSE LET k == CHOOSE x \in MatchingLines(lines, key) :
                    \A y \in MatchingLines(lines, key) : x <= y
         IN MatchKey(key, WithNewline(lines[k]))

\* the TKVersion the basename shows for a value of the file
Secondary(v) == IF v = NoneWord THEN RestOnly ELSE Str(v)

\* C4: for a DESCRIPTION with a Version line, get-version.py prints the value
\* of the first such line (after == with --as-expr) and exits 0, and
\* get-basename.py builds the basename of the first Version and TKVersion.
C4_FirstVersionPrinted ==
    (mpc = "exited" /\ MatchingLines(desc, KeyVersion) # {}) =>
        /\ status = 0
        /\ err = <<>>
        /\ tool = "get-version" =>
              out = (IF args.as_expr THEN EqEq ELSE <<>>)
                      \o FirstValue(desc, KeyVersion) \o <<"\n">>
        /\ (tool = "get-basename" /\ ~args.full) =>
              out = RSwatDash \o FirstValue(desc, KeyVersion) \o <<"\n">>
        /\ (tool = "get-basename" /\ args.full) =>
              out = RSwatDash \o FirstValue(desc, KeyVersion) \o <<"+">>
                      \o Secondary(FirstValue(desc, KeyTKVersion)) \o <<"-">>
                      \o args.platform \o <<"\n">>

\* C5: for a DESCRIPTION without a Version line, both tools exit with status
\* 1, write the error message to stderr and write nothing to stdout.
C5_MissingVersion ==
    (mpc = "exited" /\ MatchingLines(desc, KeyVersion) = {}) =>
        /\ status = 1
        /\ err = ErrorMessage \o <<"\n">>
        /\ out = <<>>

\* C5 witness: get-basename.py --full ended on a file whose Version lines
\* are indented or without a value
C5_Witness ==
    /\ mpc = "exited"
    /\ tool = "get-basename"
    /\ args.full
    /\ desc = <<LineVIndented, LineTK, LineVEmpty>>
    /\ status = 1

(***************************************************************************)
(* Properties of main of tar2conda.py                                      *)
(***************************************************************************)
\* main has ended
MainEnded == pc \in {"returned", "raised", "exited"}

\* the call shutil.rmtree(<scratch directory>) is registered with atexit
RmtreeRegistered == \E k \in 1..Len(atexit) : atexit[k] = <<"rmtree", "temp">>

\* C3: once the scratch directory is created, every end of main leaves its
\* removal registered, and the exit of the process removes it.
C3_CleanupRegistered ==
    /\ (MainEnded /\ tempDir # "none") => RmtreeRegistered
    /\ (pc = "exited" /\ tempDir # "none") => tempDir = "removed"

\* C3 witness: a build failed, and the exit of the process removed the directory
C3_Witness ==
    /\ pc = "exited"
    /\ cexc = "CalledProcessError"
    /\ log # <<>>
    /\ tempDir = "removed"

\* the values of the assignments {% set <key> = '<value>' %} of a recipe
PlaceholderValues(lines, key) ==
    { SubSeq(lines[k], SetMatch(WithNewline(lines[k]), key)[1] + 1,
             SetMatch(WithNewline(lines[k]), key)[2] - 1) :
        k \in {x \in 1..Len(lines) : SetMatch(WithNewline(lines[x]), key) # <<0, 0>>} }

\* the conda build calls of the log, as (base, ver) pairs
RECURSIVE BuiltPairs(_, _)
BuiltPairs(l, k) ==
    IF k > Len(l) THEN <<>>
    ELSE (IF l[k].op = "build" THEN << <<l[k].base, l[k].ver>> >> ELSE <<>>)
           \o BuiltPairs(l, k + 1)

\* C6: every conda build directly follows the rewrite of the recipe for the
\* same pair, sees r_base = '<base>-base' and r_version = the version in the
\* recipe and gets the version as --R; rewrites and builds alternate; and
\* when main returns the builds are the pairs of the matrix, once each.
C6_BuildLoop ==
    /\ \A k \in 1..Len(log) :
         log[k].op = "build" =>
            /\ k > 1
            /\ log[k - 1].op = "rewrite"
            /\ log[k - 1].base = log[k].base
            /\ log[k - 1].ver = log[k].ver
            /\ log[k].rarg = log[k].ver
            /\ PlaceholderValues(log[k].recipe, KeyRBase) = {log[k].base \o DashBase}
            /\ PlaceholderValues(log[k].recipe, KeyRVersion) = {log[k].ver}
    /\ \A k \in 1..Len(log) :
         log[k].op = "rewrite" => (k < Len(log) => log[k + 1].op = "build")
    /\ pc = "returned" =>
         /\ BuiltPairs(log, 1) = Pairs(matrix)
         /\ \A k \in 1..Len(log) : log[k].ok
         /\ \A a, b \in 1..Len(Pairs(matrix)) :
              Pairs(matrix)[a] = Pairs(matrix)[b] => a = b

\* C6 witness: main returned after the builds of three pairs of two flavors
C6_Witness ==
    /\ pc = "returned"
    /\ Len(log) = 6
    /\ log[6].base = Mro
    /\ log[2].base = R

\* C7: a conda build that exits non-zero is the last entry of the log: main
\* has ended with its error, there is no rewrite, no build and no retry after
\* it, and the builds before it succeeded.
C7_FailureAborts ==
    \A k \in 1..Len(log) :
        (log[k].op = "build" /\ ~log[k].ok) =>
            /\ k = Len(log)
            /\ pc \in {"raised", "exited"}
            /\ cexc = "CalledProcessError"
            /\ \A j \in 1..(k - 1) : log[j].ok
            /\ \A j \in 1..(k - 1) :
                 log[j].op = "build" => <<log[j].base, log[j].ver>> # <<log[k].base, log[k].ver>>

\* C7 witness: the second build failed and the process has exited
C7_Witness ==
    /\ pc = "exited"
    /\ Len(log) = 4
    /\ log[2].ok
    /\ ~log[4].ok
    /\ Len(Pairs(matrix)) = 3

\* C8: whenever main has ended after os.chdir(temp), by a return or by an
\* exception, the working directory is the one main was entered with.
C8_CwdRestored == (MainEnded /\ tree.extracted) => cwd = "orig"

\* C9: for a download, the downloaded file exists when the tar file is
\* opened: no urlcleanup() has removed it between download and extraction.
C9_DownloadKeptUntilExtract == (pc = "entered" /\ download) => url \in files

====
